---------------------------- MODULE Spec2Model ----------------------------
(* Security / governance core of gunnchAI3k:                               *)
(*   AuthorizationManager  (src/unnamed/part_001)                          *)
(*   AuditManager          (src/unnamed/part_000, lines 584-858)           *)
(*   ComplianceManager     (src/unnamed/part_000, lines 150-554)           *)
(*   approve / reject command handlers of the bot (core/planner.ts)        *)
(* The three audit tables are sequences of rows in insertion order; every  *)
(* handler is one action; a storage failure of the handler's single write  *)
(* is the input dbOk = FALSE.                                              *)
EXTENDS Integers, Sequences, FiniteSets, TLC

VARIABLES
  audit_events,     \* table audit_events, rows in insertion order
  security_events,  \* table security_events
  ai_actions,       \* table ai_actions
  clock,            \* the wall clock read by new Date() / CURRENT_TIMESTAMP
  frameworks,       \* ComplianceManager.frameworks: key -> framework
  ENCRYPTION_KEY,   \* process.env.ENCRYPTION_KEY, NULL when not configured
  encryptionKey,    \* AuditManager.encryptionKey of the running process
  assessment,       \* the assessCompliance call suspended at an await, if any
  calls,            \* handler calls made so far
  ret               \* the last call: handler, arguments, value returned

vars ==
  <<audit_events, security_events, ai_actions, clock, frameworks,
    ENCRYPTION_KEY, encryptionKey, assessment, calls, ret>>

-----------------------------------------------------------------------------
(* Bounds of the model *)

\* handler calls in the specification of the agent-action queue
MaxCalls == 3
\* handler calls in the specification of the authorization decisions
MaxAuthzCalls == 1
\* last reading of the wall clock
MaxClock == 1

-----------------------------------------------------------------------------
(* Values *)

\* SQL NULL / JavaScript undefined
NULL == "NULL"

EXECUTIVE == "executive"
ADMIN == "admin"
MANAGER == "manager"
USER == "user"
VIEWER == "viewer"

UserRole == {EXECUTIVE, ADMIN, MANAGER, USER, VIEWER}

\* the principals: an id and the role the principal holds
RoleOf ==
  [ execAlice |-> EXECUTIVE, adminBob |-> ADMIN, mgrDan |-> MANAGER,
    userCarol |-> USER, viewerEve |-> VIEWER ]

UserIds == DOMAIN RoleOf

\* the User values handed to the authorization manager
User ==
  { [id |-> i, role |-> RoleOf[i], mfaEnabled |-> m, isActive |-> a] :
      i \in UserIds, m \in BOOLEAN, a \in BOOLEAN }

\* the resource and action names of the policy tables, and one name of neither
Resources == {"security", "users", "ai_actions", "audit", "profile", "games"}
Actions == {"view", "read", "update", "delete", "execute", "approve",
            "configure", "request"}

\* String.prototype.toUpperCase on the action names
toUpperCase(a) ==
  CASE a = "view" -> "VIEW"
    [] a = "read" -> "READ"
    [] a = "update" -> "UPDATE"
    [] a = "delete" -> "DELETE"
    [] a = "execute" -> "EXECUTE"
    [] a = "approve" -> "APPROVE"
    [] a = "configure" -> "CONFIGURE"
    [] a = "request" -> "REQUEST"
    [] OTHER -> a

\* the keys crypto.randomBytes(32).toString('hex') may give
RandomKeys == {"r1", "r2"}

\* generateSecureKey(): random is the outcome of crypto.randomBytes
generateSecureKey(random) == random

\* the master key the constructor hands to AuditManager
constructorKey(env, random) ==
  IF env # NULL THEN env ELSE generateSecureKey(random)

\* no assessCompliance call is suspended
NoAssessment == [active |-> FALSE, frameworkName |-> NULL, next |-> 0]

-----------------------------------------------------------------------------
(* AuthorizationManager: policy tables *)

rolePermissions ==
  [ executive |->
      << [resource |-> "*", actions |-> {"*"}],
         [resource |-> "ai_actions", actions |-> {"approve", "reject", "execute"}],
         [resource |-> "security", actions |-> {"view", "configure", "audit"}],
         [resource |-> "users", actions |-> {"create", "read", "update", "delete"}] >>,
    admin |->
      << [resource |-> "users", actions |-> {"read", "update"}],
         [resource |-> "ai_actions", actions |-> {"view", "approve"}],
         [resource |-> "audit", actions |-> {"read"}],
         [resource |-> "security", actions |-> {"view"}] >>,
    manager |->
      << [resource |-> "ai_actions", actions |-> {"view", "request"}],
         [resource |-> "users", actions |-> {"read"}],
         [resource |-> "audit", actions |-> {"read"}] >>,
    user |->
      << [resource |-> "ai_actions", actions |-> {"view", "request"}],
         [resource |-> "profile", actions |-> {"read", "update"}] >>,
    viewer |->
      << [resource |-> "ai_actions", actions |-> {"view"}],
         [resource |-> "profile", actions |-> {"read"}] >> ]

checkPermissionNoResource(role, resource, action) ==
  \E i \in 1..Len(rolePermissions[role]) :
    LET permission == rolePermissions[role][i] IN
      action \in permission.actions \/ "*" \in permission.actions

checkPermissionNoWildcard(role, resource, action) ==
  \E i \in 1..Len(rolePermissions[role]) :
    LET permission == rolePermissions[role][i] IN
      permission.resource = resource /\ action \in permission.actions

checkPermission(role, resource, action) ==
  \E i \in 1..Len(rolePermissions[role]) :
    LET permission == rolePermissions[role][i] IN
      \/ permission.resource = "*" /\ "*" \in permission.actions
      \/ /\ permission.resource = resource \/ permission.resource = "*"
         /\ action \in permission.actions \/ "*" \in permission.actions

requiresMFAActionsOnly(resource, action) ==
  action \in {"delete", "execute", "approve", "configure"}

requiresMFA(resource, action) ==
  \/ resource \in {"security", "users", "ai_actions"}
  \/ action \in {"delete", "execute", "approve", "configure"}

requiresExecutiveApproval(resource, action) ==
  \/ resource \in {"ai_actions", "security", "users"}
  \/ action \in {"execute", "approve", "delete", "configure"}

requiresAudit(resource, action) ==
  \/ resource \in {"ai_actions", "security", "users", "audit"}
  \/ action \in {"create", "update", "delete", "execute", "approve"}

-----------------------------------------------------------------------------
(* AuditManager *)

\* crypto.randomBytes(16): an id no stored row has
generateSecureId ==
  Len(audit_events) + Len(security_events) + Len(ai_actions) + 1

\* HMAC-SHA256 of the JSON text of data under the key
generateHash(data) == [key |-> encryptionKey, data |-> data]

\* the row logAuditEvent inserts for event
auditRow(event) ==
  [ id |-> generateSecureId, timestamp |-> event.timestamp,
    userId |-> event.userId, action |-> event.action,
    resource |-> event.resource, result |-> event.result,
    metadata |-> event.metadata, hash |-> generateHash(event) ]

\* the row logSecurityEvent inserts for event
securityRow(event) ==
  [ id |-> generateSecureId, timestamp |-> event.timestamp,
    eventType |-> event.eventType, severity |-> event.severity,
    description |-> event.description, userId |-> event.userId,
    metadata |-> event.metadata ]

logAuditEventOverwrite(event) ==
  IF audit_events = <<>> THEN <<auditRow(event)>>
  ELSE [audit_events EXCEPT ![Len(audit_events)] = auditRow(event)]

\* table audit_events after the INSERT of logAuditEvent
logAuditEvent(event) == Append(audit_events, auditRow(event))

logSecurityEventTwice(event) ==
  Append(Append(security_events, securityRow(event)), securityRow(event))

\* table security_events after the INSERT of logSecurityEvent
logSecurityEvent(event) == Append(security_events, securityRow(event))

AuditTrailLimit == 1000
SecurityEventsLimit == 500

\* the results ORDER BY timestamp DESC LIMIT limit may give over rows, which
\* are stored in timestamp order: rows of one timestamp come in any order
newestFirst(rows, limit) ==
  LET n == Len(rows)
      desc == [i \in 1..n |-> rows[n + 1 - i]]
      tied == {i \in 1..n :
                 \/ i > 1 /\ desc[i - 1].timestamp = desc[i].timestamp
                 \/ i < n /\ desc[i + 1].timestamp = desc[i].timestamp}
      orders == {f \in [tied -> tied] :
                   /\ \A i, j \in tied : f[i] = f[j] => i = j
                   /\ \A i \in tied : desc[f[i]].timestamp = desc[i].timestamp}
  IN { [i \in 1..(IF n < limit THEN n ELSE limit) |->
          IF i \in tied THEN desc[f[i]] ELSE desc[i]] : f \in orders }

\* an absent Date argument
NoDate == -1

\* if (value): a string argument that is absent or empty adds no condition
given(value) == value \notin {NULL, ""}

getAuditTrailNoEndDate(userId, startDate, endDate) ==
  LET matches(row) ==
        /\ given(userId) => row.userId = userId
        /\ startDate = NoDate \/ row.timestamp >= startDate
  IN newestFirst(SelectSeq(audit_events, matches), AuditTrailLimit)

\* getAuditTrail(userId?, startDate?, endDate?): the results it may give
getAuditTrail(userId, startDate, endDate) ==
  LET matches(row) ==
        /\ given(userId) => row.userId = userId
        /\ startDate = NoDate \/ row.timestamp >= startDate
        /\ endDate = NoDate \/ row.timestamp <= endDate
  IN newestFirst(SelectSeq(audit_events, matches), AuditTrailLimit)

\* getSecurityEvents(severity?, eventType?): the results it may give
getSecurityEvents(severity, eventType) ==
  LET matches(row) ==
        /\ given(severity) => row.severity = severity
        /\ given(eventType) => row.eventType = eventType
  IN newestFirst(SelectSeq(security_events, matches), SecurityEventsLimit)

-----------------------------------------------------------------------------
(* AuthorizationManager.authorize *)

\* the value authorize returns; absent members are NULL
AuthorizationResult(allowed, reason, requiredApproval, auditRequired) ==
  [ allowed |-> allowed, reason |-> reason,
    requiredApproval |-> requiredApproval, auditRequired |-> auditRequired ]

authorizeGateNoActiveCheck(user, resource, action) ==
  IF requiresMFA(resource, action) /\ ~user.mfaEnabled THEN "mfa"
  ELSE IF ~checkPermission(user.role, resource, action) THEN "permission"
  ELSE IF requiresExecutiveApproval(resource, action) /\ user.role # EXECUTIVE
    THEN "approval"
  ELSE "allow"

authorizeGatePermissionFirst(user, resource, action) ==
  IF ~user.isActive THEN "inactive"
  ELSE IF ~checkPermission(user.role, resource, action) THEN "permission"
  ELSE IF requiresMFA(resource, action) /\ ~user.mfaEnabled THEN "mfa"
  ELSE IF requiresExecutiveApproval(resource, action) /\ user.role # EXECUTIVE
    THEN "approval"
  ELSE "allow"

authorizeGateApprovalFirst(user, resource, action) ==
  IF ~user.isActive THEN "inactive"
  ELSE IF requiresMFA(resource, action) /\ ~user.mfaEnabled THEN "mfa"
  ELSE IF requiresExecutiveApproval(resource, action) /\ user.role # EXECUTIVE
    THEN "approval"
  ELSE IF ~checkPermission(user.role, resource, action) THEN "permission"
  ELSE "allow"

\* the first check of authorize that fails for the call, or "allow"
authorizeGate(user, resource, action) ==
  IF ~user.isActive THEN "inactive"
  ELSE IF requiresMFA(resource, action) /\ ~user.mfaEnabled THEN "mfa"
  ELSE IF ~checkPermission(user.role, resource, action) THEN "permission"
  ELSE IF requiresExecutiveApproval(resource, action) /\ user.role # EXECUTIVE
    THEN "approval"
  ELSE "allow"

\* the event authorize hands to the audit manager on the branch it takes
authorizeEvent(user, resource, action, now) ==
  LET gate == authorizeGate(user, resource, action) IN
  CASE gate = "inactive" ->
         [ timestamp |-> now, eventType |-> "AUTHORIZATION", severity |-> "HIGH",
           description |-> <<"Inactive user attempted access: ", user.id>>,
           userId |-> user.id,
           metadata |-> [resource |-> resource, action |-> action] ]
    [] gate = "mfa" ->
         [ timestamp |-> now, eventType |-> "AUTHORIZATION", severity |-> "MEDIUM",
           description |-> <<"MFA required for action: ", action, " on ", resource>>,
           userId |-> user.id,
           metadata |-> [resource |-> resource, action |-> action] ]
    [] gate = "permission" ->
         [ timestamp |-> now, eventType |-> "AUTHORIZATION", severity |-> "HIGH",
           description |-> <<"Unauthorized access attempt: ", action, " on ", resource>>,
           userId |-> user.id,
           metadata |-> [resource |-> resource, action |-> action, role |-> user.role] ]
    [] gate = "approval" ->
         [ timestamp |-> now, eventType |-> "AUTHORIZATION", severity |-> "MEDIUM",
           description |-> <<"Executive approval required for: ", action, " on ", resource>>,
           userId |-> user.id,
           metadata |-> [resource |-> resource, action |-> action] ]
    [] OTHER ->
         [ timestamp |-> now, userId |-> user.id,
           action |-> <<"AUTHORIZE_", toUpperCase(action)>>,
           resource |-> resource, result |-> "SUCCESS",
           metadata |-> [ role |-> user.role,
                          requiresApproval |-> requiresExecutiveApproval(resource, action) ] ]

\* the value authorize returns once the write of its branch has completed
authorizeReturn(user, resource, action) ==
  LET gate == authorizeGate(user, resource, action) IN
  CASE gate = "inactive" ->
         AuthorizationResult(FALSE, "User account is inactive", NULL, NULL)
    [] gate = "mfa" ->
         AuthorizationResult(FALSE, "Multi-factor authentication required", NULL, NULL)
    [] gate = "permission" ->
         AuthorizationResult(FALSE, "Insufficient permissions", NULL, NULL)
    [] gate = "approval" ->
         AuthorizationResult(FALSE, "Executive approval required", TRUE, NULL)
    [] OTHER ->
         AuthorizationResult(TRUE, NULL, NULL, requiresAudit(resource, action))

authorizeCatchAllows(user, resource, action) ==
  authorizeReturn(user, resource, action)

\* the value the catch block of authorize returns when the write was rejected
authorizeCatch(user, resource, action) ==
  AuthorizationResult(FALSE, "Authorization system error", NULL, NULL)

\* what an inner AuditManager call gave the handler: the value it returned, or
\* nothing when it was not made or threw
Inner(val) == [returned |-> TRUE, val |-> val]
NoInner == [returned |-> FALSE, val |-> NULL]

\* the record of a call: the value returned (out), whether the call threw, and
\* the outcome of the handler's inner AuditManager call (inner)
Call(op, in, out, threw, inner) ==
  [op |-> op, in |-> in, out |-> out, threw |-> threw, inner |-> inner]

\* the AuditManager calls authorize makes, in order: the one of the branch it
\* takes; the catch block makes none
authorizeAttempts(user, resource, action, now) ==
  << [ table |-> IF authorizeGate(user, resource, action) = "allow"
                   THEN "audit_events" ELSE "security_events",
       event |-> authorizeEvent(user, resource, action, now) ] >>

\* authorize(user, resource, action); dbOk: the write of the branch succeeds
authorize(user, resource, action, dbOk) ==
  LET gate == authorizeGate(user, resource, action)
      event == authorizeEvent(user, resource, action, clock)
  IN
  /\ IF dbOk /\ gate = "allow"
       THEN audit_events' = logAuditEvent(event)
       ELSE UNCHANGED audit_events
  /\ IF dbOk /\ gate # "allow"
       THEN security_events' = logSecurityEvent(event)
       ELSE UNCHANGED security_events
  /\ ret' = Call("authorize",
                 [user |-> user, resource |-> resource, action |-> action,
                  dbOk |-> dbOk],
                 IF dbOk THEN authorizeReturn(user, resource, action)
                 ELSE authorizeCatch(user, resource, action),
                 FALSE, NoInner)
            @@ [attempts |-> authorizeAttempts(user, resource, action, clock)]
  /\ calls' = calls + 1
  /\ UNCHANGED <<ENCRYPTION_KEY, encryptionKey, assessment>>
  /\ UNCHANGED <<ai_actions, clock, frameworks>>

-----------------------------------------------------------------------------
(* Agent actions: AuditManager.logAIAction / approveAIAction /              *)
(* getPendingAIActions, AuthorizationManager.authorizeAIAction              *)

aiActionRowExecuted(id, userId, action, metadata, hashTime, now) ==
  [ id |-> id, timestamp |-> now, userId |-> userId, action |-> action,
    approval_required |-> TRUE, approved_by |-> userId, approved_at |-> now,
    executed |-> TRUE, executed_at |-> now, metadata |-> metadata,
    hash |-> generateHash([userId |-> userId, action |-> action,
                           timestamp |-> hashTime]) ]

\* the row logAIAction inserts: the columns it names, the table's defaults for
\* the others; the hash is taken at hashTime, the row is stamped at now
aiActionRow(id, userId, action, metadata, hashTime, now) ==
  [ id |-> id, timestamp |-> now, userId |-> userId, action |-> action,
    approval_required |-> TRUE, approved_by |-> NULL, approved_at |-> NULL,
    executed |-> FALSE, executed_at |-> NULL, metadata |-> metadata,
    hash |-> generateHash([userId |-> userId, action |-> action,
                           timestamp |-> hashTime]) ]

approveUpdateNoApprover(actionId, approvedBy, now) ==
  [ i \in DOMAIN ai_actions |->
      IF ai_actions[i].id = actionId
        THEN [ai_actions[i] EXCEPT !.executed = TRUE, !.executed_at = now]
        ELSE ai_actions[i] ]

\* the table after UPDATE ai_actions SET ... WHERE id = actionId
approveUpdate(actionId, approvedBy, now) ==
  [ i \in DOMAIN ai_actions |->
      IF ai_actions[i].id = actionId
        THEN [ai_actions[i] EXCEPT !.approved_by = approvedBy,
                                   !.approved_at = now,
                                   !.executed = TRUE,
                                   !.executed_at = now]
        ELSE ai_actions[i] ]

\* the rows SELECT * FROM ai_actions WHERE executed = FALSE returns
getPendingAIActions == SelectSeq(ai_actions, LAMBDA row : row.executed = FALSE)

aiNeedsApprovalBelowAdmin(user) == user.role \notin {EXECUTIVE, ADMIN}

aiNeedsApprovalUnlessActive(user) == user.role # EXECUTIVE \/ ~user.isActive

\* the test of authorizeAIAction: the caller is no executive
aiNeedsApproval(user) == user.role # EXECUTIVE

\* authorizeAIAction(user, action, metadata); late: the clock moves on between
\* the two new Date() of logAIAction; dbOk: the INSERT succeeds
authorizeAIAction(user, action, metadata, late, dbOk) ==
  LET id == generateSecureId
      now == IF late THEN clock + 1 ELSE clock
  IN
  /\ calls' = calls + 1
  /\ UNCHANGED <<ENCRYPTION_KEY, encryptionKey, assessment>>
  /\ UNCHANGED <<audit_events, security_events, frameworks>>
  /\ IF aiNeedsApproval(user)
       THEN /\ clock' = now
            /\ IF dbOk
                 THEN /\ ai_actions' = Append(ai_actions,
                            aiActionRow(id, user.id, action, metadata, clock, now))
                      /\ ret' = Call("authorizeAIAction",
                                     [user |-> user, action |-> action, dbOk |-> dbOk],
                                     AuthorizationResult(FALSE,
                                       "AI actions require executive approval",
                                       TRUE, NULL),
                                     FALSE, Inner(id))
                 ELSE /\ UNCHANGED ai_actions
                      /\ ret' = Call("authorizeAIAction",
                                     [user |-> user, action |-> action, dbOk |-> dbOk],
                                     NULL, TRUE, NoInner)
       ELSE /\ ~late
            /\ UNCHANGED <<ai_actions, clock>>
            /\ ret' = Call("authorizeAIAction",
                           [user |-> user, action |-> action, dbOk |-> dbOk],
                           AuthorizationResult(TRUE, NULL, NULL, TRUE),
                           FALSE, NoInner)

-----------------------------------------------------------------------------
(* The bot's approve and reject commands (GunnchAI3k) *)

\* getUser: the stand-in that answers an executive for every user id
getUser(userId) ==
  [id |-> userId, role |-> EXECUTIVE, mfaEnabled |-> TRUE, isActive |-> TRUE]

\* handleApproveCommand of caller on actionId; dbOk: the UPDATE succeeds
handleApproveCommand(caller, actionId, dbOk) ==
  LET user == getUser(caller)
      in == [caller |-> caller, actionId |-> actionId, dbOk |-> dbOk]
  IN
  /\ calls' = calls + 1
  /\ UNCHANGED <<ENCRYPTION_KEY, encryptionKey, assessment>>
  /\ UNCHANGED <<audit_events, security_events, clock, frameworks>>
  /\ IF user.role # EXECUTIVE
       THEN /\ UNCHANGED ai_actions
            /\ ret' = Call("handleApproveCommand", in,
                           "Only executives can approve AI actions.", FALSE, NoInner)
       ELSE IF dbOk
         THEN \* approveAIAction ran its UPDATE and returned true
              /\ ai_actions' = approveUpdate(actionId, user.id, clock)
              /\ ret' = Call("handleApproveCommand", in,
                             "AI Action Approved", FALSE, Inner(TRUE))
         ELSE \* approveAIAction threw; the handler caught it
              /\ UNCHANGED ai_actions
              /\ ret' = Call("handleApproveCommand", in,
                             "Failed to approve action.", FALSE, NoInner)

\* handleRejectCommand of caller on actionId; dbOk: the INSERT succeeds
handleRejectCommand(caller, actionId, dbOk) ==
  LET user == getUser(caller)
      in == [caller |-> caller, actionId |-> actionId, dbOk |-> dbOk]
      event == [ timestamp |-> clock, userId |-> user.id,
                 action |-> "REJECT_AI_ACTION", resource |-> "ai_actions",
                 result |-> "SUCCESS", metadata |-> [actionId |-> actionId] ]
  IN
  /\ calls' = calls + 1
  /\ UNCHANGED <<ENCRYPTION_KEY, encryptionKey, assessment>>
  /\ UNCHANGED <<security_events, ai_actions, clock, frameworks>>
  /\ IF user.role # EXECUTIVE
       THEN /\ UNCHANGED audit_events
            /\ ret' = Call("handleRejectCommand", in,
                           "Only executives can reject AI actions.", FALSE, NoInner)
       ELSE IF dbOk
         THEN /\ audit_events' = logAuditEvent(event)
              /\ ret' = Call("handleRejectCommand", in,
                             "AI Action Rejected", FALSE,
                             Inner(generateSecureId))
         ELSE /\ UNCHANGED audit_events
              /\ ret' = Call("handleRejectCommand", in,
                             "Failed to reject action.", FALSE, NoInner)

\* time passes between two calls
Tick ==
  /\ clock < MaxClock
  /\ clock' = clock + 1
  /\ UNCHANGED <<audit_events, security_events, ai_actions, frameworks,
               ENCRYPTION_KEY, encryptionKey, assessment, calls, ret>>

-----------------------------------------------------------------------------
(* ComplianceManager *)

\* a requirement of a framework; the evidence array is its set of strings
Requirement(id, category, evidence) ==
  [ id |-> id, category |-> category, status |-> "COMPLIANT",
    evidence |-> evidence, lastChecked |-> 0 ]

\* the frameworks the constructor registers, all marked COMPLIANT
initializeComplianceFrameworks ==
  [ SOC2 |->
      [ name |-> "SOC 2 Type II", version |-> "2023", status |-> "COMPLIANT",
        lastAssessment |-> 0,
        requirements |->
          << Requirement("CC6.1", "ACCESS_CONTROL",
               {"RBAC implementation", "MFA enforcement", "Access logs"}),
             Requirement("CC6.2", "ACCESS_CONTROL",
               {"Role-based permissions", "Executive approval system"}),
             Requirement("CC7.1", "AUDIT",
               {"Real-time monitoring", "Security event logging", "Audit trails"}) >> ],
    ISO27001 |->
      [ name |-> "ISO 27001", version |-> "2022", status |-> "COMPLIANT",
        lastAssessment |-> 0,
        requirements |->
          << Requirement("A.9.1", "ACCESS_CONTROL",
               {"Access control policies", "User provisioning procedures"}),
             Requirement("A.10.1", "ENCRYPTION",
               {"End-to-end encryption", "Key management", "HSM integration"}) >> ],
    GDPR |->
      [ name |-> "GDPR", version |-> "2018", status |-> "COMPLIANT",
        lastAssessment |-> 0,
        requirements |->
          << Requirement("Art.32", "DATA_PROTECTION",
               {"Data encryption", "Access controls", "Audit logging"}),
             Requirement("Art.17", "RETENTION",
               {"Data deletion procedures", "Retention policies"}) >> ] ]

checkAccessControlCompliance(requirement) ==
  LET hasRBAC == "RBAC implementation" \in requirement.evidence
      hasMFA == "MFA enforcement" \in requirement.evidence
      hasLogs == "Access logs" \in requirement.evidence
  IN IF hasRBAC /\ hasMFA /\ hasLogs THEN "COMPLIANT"
     ELSE IF hasRBAC \/ hasMFA THEN "PARTIAL"
     ELSE "NON_COMPLIANT"

checkEncryptionCompliance(requirement) ==
  LET hasEncryption == "End-to-end encryption" \in requirement.evidence
      hasKeyManagement == "Key management" \in requirement.evidence
      hasHSM == "HSM integration" \in requirement.evidence
  IN IF hasEncryption /\ hasKeyManagement /\ hasHSM THEN "COMPLIANT"
     ELSE IF hasEncryption \/ hasKeyManagement THEN "PARTIAL"
     ELSE "NON_COMPLIANT"

checkAuditCompliance(requirement) ==
  LET hasMonitoring == "Real-time monitoring" \in requirement.evidence
      hasLogging == "Security event logging" \in requirement.evidence
      hasTrails == "Audit trails" \in requirement.evidence
  IN IF hasMonitoring /\ hasLogging /\ hasTrails THEN "COMPLIANT"
     ELSE IF hasLogging \/ hasTrails THEN "PARTIAL"
     ELSE "NON_COMPLIANT"

checkDataProtectionCompliance(requirement) ==
  LET hasEncryption == "Data encryption" \in requirement.evidence
      hasAccessControls == "Access controls" \in requirement.evidence
      hasAuditLogging == "Audit logging" \in requirement.evidence
  IN IF hasEncryption /\ hasAccessControls /\ hasAuditLogging THEN "COMPLIANT"
     ELSE IF hasEncryption \/ hasAccessControls THEN "PARTIAL"
     ELSE "NON_COMPLIANT"

checkRetentionCompliance(requirement) ==
  LET hasDeletionProcedures == "Data deletion procedures" \in requirement.evidence
      hasRetentionPolicies == "Retention policies" \in requirement.evidence
  IN IF hasDeletionProcedures /\ hasRetentionPolicies THEN "COMPLIANT"
     ELSE IF hasDeletionProcedures \/ hasRetentionPolicies THEN "PARTIAL"
     ELSE "NON_COMPLIANT"

checkRequirementFromLastStatus(requirement) ==
  IF requirement.status = "COMPLIANT" THEN "PARTIAL" ELSE "COMPLIANT"

checkRequirement(requirement) ==
  CASE requirement.category = "ACCESS_CONTROL" ->
         checkAccessControlCompliance(requirement)
    [] requirement.category = "ENCRYPTION" ->
         checkEncryptionCompliance(requirement)
    [] requirement.category = "AUDIT" ->
         checkAuditCompliance(requirement)
    [] requirement.category = "DATA_PROTECTION" ->
         checkDataProtectionCompliance(requirement)
    [] requirement.category = "RETENTION" ->
         checkRetentionCompliance(requirement)
    [] OTHER -> "NON_COMPLIANT"

\* requirements.filter(r => r.status === status).length
statusCount(requirements, status) ==
  Cardinality({i \in DOMAIN requirements : requirements[i].status = status})

frameworkStatusPartialLast(requirements) ==
  LET nonCompliantCount == statusCount(requirements, "NON_COMPLIANT")
      partialCount == statusCount(requirements, "PARTIAL")
  IN IF nonCompliantCount = 0 /\ partialCount = 0 THEN "COMPLIANT"
     ELSE IF partialCount = 0 THEN "PARTIAL"
     ELSE "NON_COMPLIANT"

\* the overall status assessCompliance derives from the requirement statuses
frameworkStatus(requirements) ==
  LET nonCompliantCount == statusCount(requirements, "NON_COMPLIANT")
      partialCount == statusCount(requirements, "PARTIAL")
  IN IF nonCompliantCount = 0 /\ partialCount = 0 THEN "COMPLIANT"
     ELSE IF nonCompliantCount = 0 THEN "PARTIAL"
     ELSE "NON_COMPLIANT"

\* the framework object after the loop and the status update of assessCompliance
assessed(framework, now) ==
  LET requirements ==
        [ i \in DOMAIN framework.requirements |->
            [ framework.requirements[i] EXCEPT
                !.status = checkRequirement(framework.requirements[i]),
                !.lastChecked = now ] ]
  IN [ framework EXCEPT !.requirements = requirements,
                        !.status = frameworkStatus(requirements),
                        !.lastAssessment = now ]

\* assessCompliance(frameworkName); dbOk: the INSERT of the audit row succeeds
assessCompliance(frameworkName, dbOk) ==
  LET in == [frameworkName |-> frameworkName, dbOk |-> dbOk] IN
  /\ calls' = calls + 1
  /\ UNCHANGED <<ENCRYPTION_KEY, encryptionKey, assessment>>
  /\ UNCHANGED <<security_events, ai_actions, clock>>
  /\ IF frameworkName \notin DOMAIN frameworks
       THEN \* throws: framework not found
            /\ UNCHANGED <<frameworks, audit_events>>
            /\ ret' = Call("assessCompliance", in, NULL, TRUE, NoInner)
       ELSE LET framework == assessed(frameworks[frameworkName], clock)
                event == [ timestamp |-> clock, userId |-> "system",
                           action |-> "COMPLIANCE_ASSESSMENT",
                           resource |-> frameworkName, result |-> "SUCCESS",
                           metadata |->
                             [ status |-> framework.status,
                               requirements |-> Len(framework.requirements) ] ]
            IN
            /\ frameworks' = [frameworks EXCEPT ![frameworkName] = framework]
            /\ IF dbOk
                 THEN /\ audit_events' = logAuditEvent(event)
                      /\ ret' = Call("assessCompliance", in, framework, FALSE,
                                     Inner(generateSecureId))
                 ELSE /\ UNCHANGED audit_events
                      /\ ret' = Call("assessCompliance", in, NULL, TRUE, NoInner)

\* assessCompliance(frameworkName) up to its first await: the lookup, and the
\* call of checkRequirement for the first requirement
assessComplianceStart(frameworkName) ==
  /\ ~assessment.active
  /\ calls' = calls + 1
  /\ UNCHANGED <<ENCRYPTION_KEY, encryptionKey>>
  /\ UNCHANGED <<audit_events, security_events, ai_actions, clock, frameworks>>
  /\ IF frameworkName \notin DOMAIN frameworks
       THEN \* throws: framework not found
            /\ UNCHANGED assessment
            /\ ret' = Call("assessCompliance",
                           [frameworkName |-> frameworkName, dbOk |-> TRUE],
                           NULL, TRUE, NoInner)
       ELSE /\ assessment' = [ active |-> TRUE, frameworkName |-> frameworkName,
                               next |-> 1 ]
            /\ UNCHANGED ret

\* the suspended assessCompliance resumed after the await of one
\* checkRequirement: the status and lastChecked of that requirement are set;
\* after the last requirement the overall status and lastAssessment are set
\* too, and the call is suspended again at its audit write
assessComplianceResume ==
  /\ assessment.active
  /\ LET framework == frameworks[assessment.frameworkName]
         i == assessment.next
     IN
     /\ i <= Len(framework.requirements)
     /\ LET requirements ==
              [ framework.requirements EXCEPT
                  ![i].status = checkRequirement(framework.requirements[i]),
                  ![i].lastChecked = clock ]
        IN frameworks' =
             [ frameworks EXCEPT ![assessment.frameworkName] =
                 IF i < Len(framework.requirements)
                   THEN [framework EXCEPT !.requirements = requirements]
                   ELSE [framework EXCEPT !.requirements = requirements,
                                          !.status = frameworkStatus(requirements),
                                          !.lastAssessment = clock] ]
     /\ assessment' = [assessment EXCEPT !.next = i + 1]
  /\ UNCHANGED <<audit_events, security_events, ai_actions, clock,
               ENCRYPTION_KEY, encryptionKey, calls, ret>>

\* the suspended assessCompliance resumed after its audit write; dbOk: the
\* INSERT succeeded
assessComplianceFinish(dbOk) ==
  /\ assessment.active
  /\ LET frameworkName == assessment.frameworkName
         framework == frameworks[frameworkName]
         in == [frameworkName |-> frameworkName, dbOk |-> dbOk]
         event == [ timestamp |-> clock, userId |-> "system",
                    action |-> "COMPLIANCE_ASSESSMENT",
                    resource |-> frameworkName, result |-> "SUCCESS",
                    metadata |->
                      [ status |-> framework.status,
                        requirements |-> Len(framework.requirements) ] ]
     IN
     /\ assessment.next = Len(framework.requirements) + 1
     /\ IF dbOk
          THEN /\ audit_events' = logAuditEvent(event)
               /\ ret' = Call("assessCompliance", in, framework, FALSE,
                              Inner(generateSecureId))
          ELSE /\ UNCHANGED audit_events
               /\ ret' = Call("assessCompliance", in, NULL, TRUE, NoInner)
  /\ assessment' = NoAssessment
  /\ UNCHANGED <<security_events, ai_actions, clock, frameworks,
               ENCRYPTION_KEY, encryptionKey, calls>>

\* the policies the constructor registers
initializeRetentionPolicies ==
  << [ dataType |-> "audit_logs", retentionPeriod |-> 2555,
       encryptionRequired |-> TRUE, deletionMethod |-> "SECURE_DELETE",
       auditRequired |-> TRUE ],
     [ dataType |-> "user_data", retentionPeriod |-> 365,
       encryptionRequired |-> TRUE, deletionMethod |-> "CRYPTOGRAPHIC_ERASE",
       auditRequired |-> TRUE ],
     [ dataType |-> "ai_actions", retentionPeriod |-> 1095,
       encryptionRequired |-> TRUE, deletionMethod |-> "SECURE_DELETE",
       auditRequired |-> TRUE ],
     [ dataType |-> "security_events", retentionPeriod |-> 2555,
       encryptionRequired |-> TRUE, deletionMethod |-> "SECURE_DELETE",
       auditRequired |-> TRUE ] >>

getDataRetentionPolicyFirst(dataType) == Head(initializeRetentionPolicies)

\* retentionPolicies.find(policy => policy.dataType === dataType) || null
getDataRetentionPolicy(dataType) ==
  LET found == SelectSeq(initializeRetentionPolicies,
                         LAMBDA policy : policy.dataType = dataType)
  IN IF found = <<>> THEN NULL ELSE Head(found)

\* scheduleDataDeletion(dataType); dbOk: the INSERT of the audit row succeeds
scheduleDataDeletion(dataType, dbOk) ==
  LET in == [dataType |-> dataType, dbOk |-> dbOk]
      known == \E i \in DOMAIN initializeRetentionPolicies :
                 initializeRetentionPolicies[i].dataType = dataType
      policy == getDataRetentionPolicy(dataType)
  IN
  /\ calls' = calls + 1
  /\ UNCHANGED <<ENCRYPTION_KEY, encryptionKey, assessment>>
  /\ UNCHANGED <<security_events, ai_actions, clock, frameworks>>
  /\ IF ~known
       THEN /\ UNCHANGED audit_events
            /\ ret' = Call("scheduleDataDeletion", in, FALSE, FALSE, NoInner)
       ELSE IF dbOk
         THEN /\ audit_events' = logAuditEvent(
                    [ timestamp |-> clock, userId |-> "system",
                      action |-> "SCHEDULE_DELETION", resource |-> dataType,
                      result |-> "SUCCESS",
                      metadata |->
                        [ deletionDate |->
                            [from |-> clock, days |-> policy.retentionPeriod],
                          retentionPeriod |-> policy.retentionPeriod,
                          deletionMethod |-> policy.deletionMethod ] ])
              /\ ret' = Call("scheduleDataDeletion", in, TRUE, FALSE,
                             Inner(generateSecureId))
         ELSE /\ UNCHANGED audit_events
              /\ ret' = Call("scheduleDataDeletion", in, NULL, TRUE, NoInner)

\* the points a requirement status adds to the total
statusScore(status) ==
  CASE status = "COMPLIANT" -> 100
    [] status = "PARTIAL" -> 50
    [] OTHER -> 0

RECURSIVE totalScore(_)
\* the sum of the points over a sequence of requirements
totalScore(requirements) ==
  IF requirements = <<>> THEN 0
  ELSE statusScore(Head(requirements).status) + totalScore(Tail(requirements))

\* Math.round(totalScore / totalRequirements) over all requirements
calculateOverallComplianceScore ==
  LET names == DOMAIN frameworks
      total == LET RECURSIVE sum(_)
                   sum(S) == IF S = {} THEN 0
                             ELSE LET n == CHOOSE x \in S : TRUE
                                  IN totalScore(frameworks[n].requirements)
                                       + sum(S \ {n})
               IN sum(names)
      totalRequirements ==
        LET RECURSIVE count(_)
            count(S) == IF S = {} THEN 0
                        ELSE LET n == CHOOSE x \in S : TRUE
                             IN Len(frameworks[n].requirements) + count(S \ {n})
        IN count(names)
  IN IF totalRequirements > 0
       THEN (2 * total + totalRequirements) \div (2 * totalRequirements)
       ELSE 0

\* generateComplianceReport()
generateComplianceReport ==
  LET report ==
        [ timestamp |-> clock,
          frameworks |->
            [ n \in DOMAIN frameworks |->
                LET f == frameworks[n] IN
                [ name |-> f.name, version |-> f.version, status |-> f.status,
                  lastAssessment |-> f.lastAssessment,
                  requirementsCount |-> Len(f.requirements),
                  compliantRequirements |-> statusCount(f.requirements, "COMPLIANT"),
                  nonCompliantRequirements |->
                    statusCount(f.requirements, "NON_COMPLIANT"),
                  partialRequirements |-> statusCount(f.requirements, "PARTIAL") ] ],
          retentionPolicies |-> initializeRetentionPolicies,
          overallComplianceScore |-> calculateOverallComplianceScore ]
  IN
  /\ calls' = calls + 1
  /\ UNCHANGED <<ENCRYPTION_KEY, encryptionKey, assessment>>
  /\ UNCHANGED <<audit_events, security_events, ai_actions, clock, frameworks>>
  /\ ret' = Call("generateComplianceReport", NULL, report, FALSE, NoInner)

\* 30 days before now: earlier than every stored timestamp
ThirtyDaysAgo == 0

\* exportComplianceEvidence(frameworkName); dbOk: the SELECT succeeds
exportComplianceEvidence(frameworkName, dbOk) ==
  LET in == [frameworkName |-> frameworkName, dbOk |-> dbOk] IN
  /\ calls' = calls + 1
  /\ UNCHANGED <<ENCRYPTION_KEY, encryptionKey, assessment>>
  /\ UNCHANGED <<audit_events, security_events, ai_actions, clock, frameworks>>
  /\ IF frameworkName \notin DOMAIN frameworks \/ ~dbOk
       THEN ret' = Call("exportComplianceEvidence", in, NULL, TRUE, NoInner)
       ELSE LET framework == frameworks[frameworkName] IN
            \E auditLogs \in getAuditTrail(NULL, ThirtyDaysAgo, clock) :
            ret' = Call("exportComplianceEvidence", in,
                     [ framework |-> framework.name,
                       version |-> framework.version,
                       assessmentDate |-> clock,
                       requirements |->
                         [ i \in DOMAIN framework.requirements |->
                             LET req == framework.requirements[i] IN
                             [ id |-> req.id, status |-> req.status,
                               evidence |-> req.evidence,
                               lastChecked |-> req.lastChecked ] ],
                       auditLogs |-> auditLogs ],
                     FALSE, NoInner)

-----------------------------------------------------------------------------
(* AuthorizationManager: user management *)

\* `user_${Date.now()}_${random}`: an id no other call produces
generateUserId == <<"user_", clock, calls>>

\* createUser(userData, createdBy); dbOk: the INSERT of the audit row succeeds
createUser(userData, createdBy, dbOk) ==
  LET user == [ id |-> generateUserId, role |-> userData.role,
                mfaEnabled |-> userData.mfaEnabled, isActive |-> TRUE ]
      in == [userData |-> userData, createdBy |-> createdBy, dbOk |-> dbOk]
      event == [ timestamp |-> clock, userId |-> createdBy,
                 action |-> "CREATE_USER", resource |-> "users",
                 result |-> "SUCCESS",
                 metadata |-> [createdUserId |-> user.id, role |-> user.role] ]
  IN
  /\ calls' = calls + 1
  /\ UNCHANGED <<ENCRYPTION_KEY, encryptionKey, assessment>>
  /\ UNCHANGED <<security_events, ai_actions, clock, frameworks>>
  /\ IF dbOk
       THEN /\ audit_events' = logAuditEvent(event)
            /\ ret' = Call("createUser", in, user, FALSE, Inner(generateSecureId))
       ELSE /\ UNCHANGED audit_events
            /\ ret' = Call("createUser", in, NULL, TRUE, NoInner)

\* updateUserRole(userId, newRole, updatedBy); dbOk: the INSERT succeeds
updateUserRole(userId, newRole, updatedBy, dbOk) ==
  LET in == [ userId |-> userId, newRole |-> newRole,
              updatedBy |-> updatedBy, dbOk |-> dbOk ]
      metadata == [targetUserId |-> userId, newRole |-> newRole]
  IN
  /\ calls' = calls + 1
  /\ UNCHANGED <<ENCRYPTION_KEY, encryptionKey, assessment>>
  /\ UNCHANGED <<ai_actions, clock, frameworks>>
  /\ IF updatedBy # "executive"
       THEN /\ UNCHANGED audit_events
            /\ IF dbOk
                 THEN /\ security_events' = logSecurityEvent(
                            [ timestamp |-> clock, eventType |-> "AUTHORIZATION",
                              severity |-> "HIGH",
                              description |->
                                <<"Unauthorized role change attempt: ", userId>>,
                              userId |-> updatedBy, metadata |-> metadata ])
                      /\ ret' = Call("updateUserRole", in, FALSE, FALSE,
                                     Inner(generateSecureId))
                 ELSE /\ UNCHANGED security_events
                      /\ ret' = Call("updateUserRole", in, NULL, TRUE, NoInner)
       ELSE /\ UNCHANGED security_events
            /\ IF dbOk
                 THEN /\ audit_events' = logAuditEvent(
                            [ timestamp |-> clock, userId |-> updatedBy,
                              action |-> "UPDATE_USER_ROLE", resource |-> "users",
                              result |-> "SUCCESS", metadata |-> metadata ])
                      /\ ret' = Call("updateUserRole", in, TRUE, FALSE,
                                     Inner(generateSecureId))
                 ELSE /\ UNCHANGED audit_events
                      /\ ret' = Call("updateUserRole", in, NULL, TRUE, NoInner)

\* deactivateUser(userId, deactivatedBy); dbOk: the INSERT succeeds
deactivateUser(userId, deactivatedBy, dbOk) ==
  LET in == [userId |-> userId, deactivatedBy |-> deactivatedBy, dbOk |-> dbOk]
      event == [ timestamp |-> clock, userId |-> deactivatedBy,
                 action |-> "DEACTIVATE_USER", resource |-> "users",
                 result |-> "SUCCESS",
                 metadata |-> [deactivatedUserId |-> userId] ]
  IN
  /\ calls' = calls + 1
  /\ UNCHANGED <<ENCRYPTION_KEY, encryptionKey, assessment>>
  /\ UNCHANGED <<security_events, ai_actions, clock, frameworks>>
  /\ IF dbOk
       THEN /\ audit_events' = logAuditEvent(event)
            /\ ret' = Call("deactivateUser", in, TRUE, FALSE,
                           Inner(generateSecureId))
       ELSE /\ UNCHANGED audit_events
            /\ ret' = Call("deactivateUser", in, NULL, TRUE, NoInner)

-----------------------------------------------------------------------------
(* AuditManager: recording an incident; the security report *)

\* logSecurityEvent called by a client of the audit manager
recordSecurityEvent(severity, dbOk) ==
  LET in == [severity |-> severity, dbOk |-> dbOk]
      event == [ timestamp |-> clock, eventType |-> "VIOLATION",
                 severity |-> severity, description |-> "incident",
                 userId |-> "system", metadata |-> NULL ]
  IN
  /\ calls' = calls + 1
  /\ UNCHANGED <<ENCRYPTION_KEY, encryptionKey, assessment>>
  /\ UNCHANGED <<audit_events, ai_actions, clock, frameworks>>
  /\ IF dbOk
       THEN /\ security_events' = logSecurityEvent(event)
            /\ ret' = Call("logSecurityEvent", in, generateSecureId, FALSE, NoInner)
       ELSE /\ UNCHANGED security_events
            /\ ret' = Call("logSecurityEvent", in, NULL, TRUE, NoInner)

\* a call of getAuditTrail by a client of the audit manager
queryAuditTrail(userId, startDate, endDate) ==
  /\ calls' = calls + 1
  /\ UNCHANGED <<ENCRYPTION_KEY, encryptionKey, assessment>>
  /\ UNCHANGED <<audit_events, security_events, ai_actions, clock, frameworks>>
  /\ \E rows \in getAuditTrail(userId, startDate, endDate) :
       ret' = Call("getAuditTrail",
                   [userId |-> userId, startDate |-> startDate, endDate |-> endDate],
                   rows, FALSE, NoInner)

\* a call of getSecurityEvents by a client of the audit manager
querySecurityEvents(severity, eventType) ==
  /\ calls' = calls + 1
  /\ UNCHANGED <<ENCRYPTION_KEY, encryptionKey, assessment>>
  /\ UNCHANGED <<audit_events, security_events, ai_actions, clock, frameworks>>
  /\ \E rows \in getSecurityEvents(severity, eventType) :
       ret' = Call("getSecurityEvents",
                   [severity |-> severity, eventType |-> eventType],
                   rows, FALSE, NoInner)

\* events.filter(e => e.severity === severity).length
severityCount(events, severity) ==
  Cardinality({i \in DOMAIN events : events[i].severity = severity})

calculateSecurityScore(events) ==
  LET score == 100 - severityCount(events, "CRITICAL") * 20
                   - severityCount(events, "HIGH") * 10
                   - severityCount(events, "MEDIUM") * 5
  IN IF score > 0 THEN score ELSE 0

\* getSecurityReport(); dbOk: the two SELECTs succeed
getSecurityReport(dbOk) ==
  \E securityEvents \in getSecurityEvents(NULL, NULL),
     auditEvents \in getAuditTrail(NULL, NoDate, NoDate) :
  LET report ==
        [ totalSecurityEvents |-> Len(securityEvents),
          criticalEvents |-> severityCount(securityEvents, "CRITICAL"),
          highSeverityEvents |-> severityCount(securityEvents, "HIGH"),
          recentAuditEvents |->
            SubSeq(auditEvents, 1,
                   IF Len(auditEvents) < 10 THEN Len(auditEvents) ELSE 10),
          securityScore |-> calculateSecurityScore(securityEvents) ]
  IN
  /\ calls' = calls + 1
  /\ UNCHANGED <<ENCRYPTION_KEY, encryptionKey, assessment>>
  /\ UNCHANGED <<audit_events, security_events, ai_actions, clock, frameworks>>
  /\ ret' = IF dbOk
              THEN Call("getSecurityReport", [dbOk |-> dbOk], report, FALSE, NoInner)
              ELSE Call("getSecurityReport", [dbOk |-> dbOk], NULL, TRUE, NoInner)

-----------------------------------------------------------------------------
(* Specifications *)

Init ==
  /\ audit_events = <<>>
  /\ security_events = <<>>
  /\ ai_actions = <<>>
  /\ frameworks = initializeComplianceFrameworks
  /\ clock = 0
  /\ ENCRYPTION_KEY = "k0"
  /\ encryptionKey = constructorKey(ENCRYPTION_KEY, "r1")
  /\ assessment = NoAssessment
  /\ calls = 0
  /\ ret = Call("init", NULL, NULL, FALSE, NoInner)

\* the names of the agent actions submitted
AIActionNames == {"deploy", "purge"}

\* the ids the commands are given: those of the stored agent actions and one
\* that was never recorded
UnknownId == 0
ActionIds == {ai_actions[i].id : i \in DOMAIN ai_actions} \cup {UnknownId}

\* the principals of the agent-action queue
QueueUsers ==
  { u \in User : u.id \in {"execAlice", "adminBob", "userCarol"} /\ u.mfaEnabled /\ u.isActive }

QueueCallers == {u.id : u \in QueueUsers}

\* the authorization decisions over the whole vocabulary of the policy tables
AuthorizeCall ==
  /\ calls < MaxAuthzCalls
  /\ \E user \in User, resource \in Resources, action \in Actions,
       dbOk \in BOOLEAN :
         authorize(user, resource, action, dbOk)

AuthorizeAIActionCall ==
  /\ calls < MaxAuthzCalls
  /\ \E user \in User, action \in AIActionNames, late \in BOOLEAN,
       dbOk \in BOOLEAN :
         /\ late => clock < MaxClock
         /\ authorizeAIAction(user, action, NULL, late, dbOk)

NextAuthz == AuthorizeCall \/ AuthorizeAIActionCall

SpecAuthz == Init /\ [][NextAuthz]_vars

\* the agent-action queue: submission, approval, rejection
SubmitAgentAction ==
  /\ calls < MaxCalls
  /\ \E user \in QueueUsers, action \in AIActionNames, late \in BOOLEAN,
       dbOk \in BOOLEAN :
         /\ late => clock < MaxClock
         /\ authorizeAIAction(user, action, NULL, late, dbOk)

ApproveCommand ==
  /\ calls < MaxCalls
  /\ \E caller \in QueueCallers, actionId \in ActionIds, dbOk \in BOOLEAN :
       handleApproveCommand(caller, actionId, dbOk)

RejectCommand ==
  /\ calls < MaxCalls
  /\ \E caller \in QueueCallers, actionId \in ActionIds, dbOk \in BOOLEAN :
       handleRejectCommand(caller, actionId, dbOk)

Next == SubmitAgentAction \/ ApproveCommand \/ RejectCommand \/ Tick

Spec == Init /\ [][Next]_vars

-----------------------------------------------------------------------------
(* The compliance manager alone: assessments over any evidence *)

MaxComplyCalls == 2

\* the evidence strings the rule of a category looks for
EvidenceTags(category) ==
  CASE category = "ACCESS_CONTROL" ->
         {"RBAC implementation", "MFA enforcement", "Access logs"}
    [] category = "ENCRYPTION" ->
         {"End-to-end encryption", "Key management", "HSM integration"}
    [] category = "AUDIT" ->
         {"Real-time monitoring", "Security event logging", "Audit trails"}
    [] category = "DATA_PROTECTION" ->
         {"Data encryption", "Access controls", "Audit logging"}
    [] category = "RETENTION" ->
         {"Data deletion procedures", "Retention policies"}

\* the frameworks with the evidence arrays of framework frameworkName
\* replaced by evidence[i] for its i-th requirement
withEvidence(frameworkName, evidence) ==
  LET framework == initializeComplianceFrameworks[frameworkName] IN
  [ initializeComplianceFrameworks EXCEPT
      ![frameworkName].requirements =
        [ i \in DOMAIN framework.requirements |->
            [framework.requirements[i] EXCEPT !.evidence = evidence[i]] ] ]

\* the keys assessCompliance is called with: the registered ones and one other
FrameworkNames == DOMAIN initializeComplianceFrameworks \cup {"HIPAA"}

\* the registered frameworks, one of them holding any evidence for its
\* requirements
InitComply ==
  /\ audit_events = <<>>
  /\ security_events = <<>>
  /\ ai_actions = <<>>
  /\ clock = 0
  /\ ENCRYPTION_KEY = "k0"
  /\ encryptionKey = constructorKey(ENCRYPTION_KEY, "r1")
  /\ assessment = NoAssessment
  /\ calls = 0
  /\ ret = Call("init", NULL, NULL, FALSE, NoInner)
  /\ \/ frameworks = initializeComplianceFrameworks
     \/ \E frameworkName \in DOMAIN initializeComplianceFrameworks :
          LET requirements ==
                initializeComplianceFrameworks[frameworkName].requirements
          IN \E evidence \in
                  [DOMAIN requirements -> SUBSET UNION
                     {EvidenceTags(requirements[i].category) :
                        i \in DOMAIN requirements}] :
               /\ \A i \in DOMAIN requirements :
                    evidence[i] \subseteq EvidenceTags(requirements[i].category)
               /\ frameworks = withEvidence(frameworkName, evidence)

AssessComplianceCall ==
  /\ calls < MaxComplyCalls
  /\ \E frameworkName \in FrameworkNames, dbOk \in BOOLEAN :
       assessCompliance(frameworkName, dbOk)

NextComply == AssessComplianceCall \/ Tick

SpecComply == InitComply /\ [][NextComply]_vars

-----------------------------------------------------------------------------
(* The security report over tables of any length *)

MaxHead == 1
MaxScoreCalls == 1

Severities == {"LOW", "MEDIUM", "HIGH", "CRITICAL"}

\* table security_events after one logSecurityEvent per clock tick, the i-th
\* with severity severities[i]
storedIncidents(severities) ==
  [ i \in DOMAIN severities |->
      [ id |-> i, timestamp |-> i, eventType |-> "VIOLATION",
        severity |-> severities[i], description |-> "incident",
        userId |-> "system", metadata |-> NULL ] ]

\* incidents of any severity followed by none, one less than the limit of
\* getSecurityEvents, or as many low-severity incidents as the limit
InitScore ==
  /\ audit_events = <<>>
  /\ ai_actions = <<>>
  /\ frameworks = initializeComplianceFrameworks
  /\ ENCRYPTION_KEY = "k0"
  /\ encryptionKey = constructorKey(ENCRYPTION_KEY, "r1")
  /\ assessment = NoAssessment
  /\ calls = 0
  /\ ret = Call("init", NULL, NULL, FALSE, NoInner)
  /\ \E n \in 0..MaxHead :
       \E head \in [1..n -> Severities],
          fill \in {0, SecurityEventsLimit - 1, SecurityEventsLimit} :
         /\ security_events =
              storedIncidents(head \o [i \in 1..fill |-> "LOW"])
         /\ clock = n + fill

RecordSecurityIncident ==
  /\ calls < MaxScoreCalls
  /\ \E severity \in Severities, dbOk \in BOOLEAN :
       recordSecurityEvent(severity, dbOk)

SecurityReportCall ==
  /\ calls < MaxScoreCalls
  /\ \E dbOk \in BOOLEAN : getSecurityReport(dbOk)

\* one authorization decision over the stored incidents
ScoreAuthorize ==
  /\ calls < MaxScoreCalls
  /\ \E user \in QueueUsers, dbOk \in BOOLEAN :
       authorize(user, "ai_actions", "approve", dbOk)

NextScore == RecordSecurityIncident \/ SecurityReportCall \/ ScoreAuthorize

SpecScore == InitScore /\ [][NextScore]_vars

-----------------------------------------------------------------------------
(* Every operation of the core over a small vocabulary *)

MaxTrailCalls == 2

TrailUsers ==
  { u \in User : u.id \in {"execAlice", "viewerEve"} /\ u.mfaEnabled /\ u.isActive }

\* the caller ids given to the user management: an executive, a viewer, and
\* the string that names no principal
CallerIds == {"execAlice", "viewerEve", "executive"}

TrailAuthorize ==
  /\ calls < MaxTrailCalls
  /\ \E user \in TrailUsers, dbOk \in BOOLEAN :
       authorize(user, "ai_actions", "approve", dbOk)

TrailSubmitAgentAction ==
  /\ calls < MaxTrailCalls
  /\ \E user \in TrailUsers, dbOk \in BOOLEAN :
       authorizeAIAction(user, "deploy", NULL, FALSE, dbOk)

TrailApproveCommand ==
  /\ calls < MaxTrailCalls
  /\ \E actionId \in ActionIds, dbOk \in BOOLEAN :
       handleApproveCommand("execAlice", actionId, dbOk)

TrailRejectCommand ==
  /\ calls < MaxTrailCalls
  /\ \E actionId \in ActionIds, dbOk \in BOOLEAN :
       handleRejectCommand("execAlice", actionId, dbOk)

CreateUserCall ==
  /\ calls < MaxTrailCalls
  /\ \E createdBy \in CallerIds, dbOk \in BOOLEAN :
       createUser([role |-> ADMIN, mfaEnabled |-> FALSE, isActive |-> FALSE],
                  createdBy, dbOk)

UpdateUserRoleCall ==
  /\ calls < MaxTrailCalls
  /\ \E updatedBy \in CallerIds, dbOk \in BOOLEAN :
       updateUserRole("userCarol", EXECUTIVE, updatedBy, dbOk)

DeactivateUserCall ==
  /\ calls < MaxTrailCalls
  /\ \E deactivatedBy \in CallerIds, dbOk \in BOOLEAN :
       deactivateUser("userCarol", deactivatedBy, dbOk)

TrailAssessCompliance ==
  /\ calls < MaxTrailCalls
  /\ \E frameworkName \in {"SOC2", "HIPAA"}, dbOk \in BOOLEAN :
       assessCompliance(frameworkName, dbOk)

ScheduleDataDeletionCall ==
  /\ calls < MaxTrailCalls
  /\ \E dataType \in {"audit_logs", "user_data", "cache"}, dbOk \in BOOLEAN :
       scheduleDataDeletion(dataType, dbOk)

ExportComplianceEvidenceCall ==
  /\ calls < MaxTrailCalls
  /\ \E frameworkName \in {"SOC2", "HIPAA"}, dbOk \in BOOLEAN :
       exportComplianceEvidence(frameworkName, dbOk)

GenerateComplianceReportCall ==
  /\ calls < MaxTrailCalls
  /\ generateComplianceReport

TrailSecurityReport ==
  /\ calls < MaxTrailCalls
  /\ \E dbOk \in BOOLEAN : getSecurityReport(dbOk)

TrailRecordSecurityIncident ==
  /\ calls < MaxTrailCalls
  /\ \E severity \in {"LOW", "CRITICAL"}, dbOk \in BOOLEAN :
       recordSecurityEvent(severity, dbOk)

QueryAuditTrail ==
  /\ calls < MaxTrailCalls
  /\ \E userId \in {NULL, "system"} : queryAuditTrail(userId, NoDate, NoDate)

QuerySecurityEvents ==
  /\ calls < MaxTrailCalls
  /\ \E severity \in {NULL, "HIGH"} : querySecurityEvents(severity, NULL)

NextTrail ==
  \/ TrailAuthorize \/ TrailSubmitAgentAction
  \/ TrailApproveCommand \/ TrailRejectCommand
  \/ CreateUserCall \/ UpdateUserRoleCall \/ DeactivateUserCall
  \/ TrailAssessCompliance \/ ScheduleDataDeletionCall
  \/ ExportComplianceEvidenceCall \/ GenerateComplianceReportCall
  \/ TrailSecurityReport \/ TrailRecordSecurityIncident
  \/ QueryAuditTrail \/ QuerySecurityEvents
  \/ Tick

SpecTrail == Init /\ [][NextTrail]_vars

-----------------------------------------------------------------------------
(* Restarts of the process over the database file *)

MaxBootCalls == 3

\* new GunnchAI3k() in a new process: the managers are built anew, with the
\* configured key or a key drawn at random; the database file is as it was left
constructor(random) ==
  /\ encryptionKey' = constructorKey(ENCRYPTION_KEY, random)
  /\ frameworks' = initializeComplianceFrameworks
  /\ assessment' = NoAssessment
  /\ calls' = calls + 1
  /\ ret' = Call("constructor", NULL, NULL, FALSE, NoInner)
  /\ UNCHANGED <<audit_events, security_events, ai_actions, clock, ENCRYPTION_KEY>>

\* the first process, with or without a configured key
InitBoot ==
  /\ audit_events = <<>>
  /\ security_events = <<>>
  /\ ai_actions = <<>>
  /\ frameworks = initializeComplianceFrameworks
  /\ clock = 0
  /\ ENCRYPTION_KEY \in {NULL, "k0"}
  /\ \E random \in RandomKeys :
       encryptionKey = constructorKey(ENCRYPTION_KEY, random)
  /\ assessment = NoAssessment
  /\ calls = 0
  /\ ret = Call("init", NULL, NULL, FALSE, NoInner)

Restart ==
  /\ calls < MaxBootCalls
  /\ \E random \in RandomKeys : constructor(random)

BootAuthorize ==
  /\ calls < MaxBootCalls
  /\ \E user \in TrailUsers, dbOk \in BOOLEAN :
       authorize(user, "ai_actions", "approve", dbOk)

BootSubmitAgentAction ==
  /\ calls < MaxBootCalls
  /\ \E user \in TrailUsers, dbOk \in BOOLEAN :
       authorizeAIAction(user, "deploy", NULL, FALSE, dbOk)

NextBoot == Restart \/ BootAuthorize \/ BootSubmitAgentAction \/ Tick

SpecBoot == InitBoot /\ [][NextBoot]_vars

-----------------------------------------------------------------------------
(* Queries of the audit trail over tables of any length *)

MaxQueryCalls == 1

\* table audit_events after one logAuditEvent per user id of head and then
\* fill more by "system", one per clock tick, the first of these within the
\* tick of the head
storedAudits(head, fill) ==
  [ i \in 1..(Len(head) + fill) |->
      LET event ==
            [ timestamp |-> IF i <= Len(head) THEN 1 ELSE i - Len(head),
              userId |-> IF i <= Len(head) THEN head[i] ELSE "system",
              action |-> "COMPLIANCE_ASSESSMENT", resource |-> "SOC2",
              result |-> "SUCCESS", metadata |-> NULL ]
      IN [ id |-> i, timestamp |-> event.timestamp, userId |-> event.userId,
           action |-> event.action, resource |-> event.resource,
           result |-> event.result, metadata |-> event.metadata,
           hash |-> generateHash(event) ] ]

\* an audit trail of a few records or of some more than the limit of
\* getAuditTrail
InitQuery ==
  /\ ENCRYPTION_KEY = "k0"
  /\ encryptionKey = constructorKey(ENCRYPTION_KEY, "r1")
  /\ security_events = <<>>
  /\ ai_actions = <<>>
  /\ frameworks = initializeComplianceFrameworks
  /\ assessment = NoAssessment
  /\ calls = 0
  /\ ret = Call("init", NULL, NULL, FALSE, NoInner)
  /\ \E n \in 0..MaxHead :
       \E head \in [1..n -> {"execAlice", "system"}],
          fill \in {0, AuditTrailLimit} :
         /\ audit_events = storedAudits(head, fill)
         /\ clock = fill + 2

QueryCall ==
  /\ calls < MaxQueryCalls
  /\ \E userId \in {NULL, "", "execAlice"}, startDate \in {NoDate, 2},
        endDate \in {NoDate, 1, AuditTrailLimit} :
       queryAuditTrail(userId, startDate, endDate)

QueryRecordAudit ==
  /\ calls < MaxQueryCalls
  /\ \E dbOk \in BOOLEAN :
       createUser([role |-> USER, mfaEnabled |-> FALSE, isActive |-> TRUE],
                  "execAlice", dbOk)

NextQuery == QueryCall \/ QueryRecordAudit

SpecQuery == InitQuery /\ [][NextQuery]_vars

-----------------------------------------------------------------------------
(* The compliance report next to an assessment in progress *)

MaxAsyncCalls == 3

AssessStart ==
  /\ calls < MaxAsyncCalls
  /\ \E frameworkName \in FrameworkNames : assessComplianceStart(frameworkName)

AssessResume ==
  /\ assessment.active
  /\ assessComplianceResume

AssessFinish ==
  /\ assessment.active
  /\ \E dbOk \in BOOLEAN : assessComplianceFinish(dbOk)

ComplianceReportCall ==
  /\ calls < MaxAsyncCalls
  /\ generateComplianceReport

NextAsync ==
  AssessStart \/ AssessResume \/ AssessFinish \/ ComplianceReportCall \/ Tick

SpecAsync == Init /\ [][NextAsync]_vars

-----------------------------------------------------------------------------
(* Properties *)

AuthorizeReturned == ret.op = "authorize"

MfaResources == {"security", "users", "ai_actions"}

\* the reasons of authorize that mention multi-factor authentication
MentionsMFA(reason) == reason = "Multi-factor authentication required"

\* some entry of the role's permission table names the resource (or "*") and
\* the action (or "*")
TableGrants(role, resource, action) ==
  \E i \in DOMAIN rolePermissions[role] :
    /\ rolePermissions[role][i].resource \in {resource, "*"}
    /\ rolePermissions[role][i].actions \cap {action, "*"} # {}

\* C1: an authorize call for a principal with isActive = FALSE returns
\* allowed = FALSE, whatever the role, the MFA flag, the resource, the action
\* and the outcome of the write.
C1_InactiveDenied ==
  AuthorizeReturned /\ ~ret.in.user.isActive => ret.out.allowed = FALSE

C1_Witness ==
  /\ AuthorizeReturned
  /\ ~ret.in.user.isActive
  /\ ret.in.user.role = EXECUTIVE
  /\ ret.in.user.mfaEnabled
  /\ ret.in.dbOk
  /\ ret.out.allowed = FALSE

\* C2: authorize returns allowed = TRUE only if the three policy gates hold
\* for the call: MFA enabled when the resource or the action is MFA-gated, the
\* role's table grants (resource, action), and the role is Executive when the
\* resource or the action needs executive approval.
C2_AllowedOnlyThroughGates ==
  AuthorizeReturned /\ ret.out.allowed = TRUE =>
    LET user == ret.in.user
        resource == ret.in.resource
        action == ret.in.action
    IN
    /\ ( \/ resource \in {"security", "users", "ai_actions"}
         \/ action \in {"delete", "execute", "approve", "configure"} )
         => user.mfaEnabled
    /\ TableGrants(user.role, resource, action)
    /\ ( \/ resource \in {"ai_actions", "security", "users"}
         \/ action \in {"execute", "approve", "delete", "configure"} )
         => user.role = EXECUTIVE

C2_Witness ==
  /\ AuthorizeReturned
  /\ ret.out.allowed = TRUE
  /\ ret.in.user.role = ADMIN
  /\ ~ret.in.user.mfaEnabled

\* C3 as stated: for a resource in {security, users, ai_actions} and a
\* principal with mfaEnabled = FALSE, authorize returns allowed = FALSE with a
\* reason that mentions multi-factor authentication.
C3_Stated ==
  AuthorizeReturned /\ ret.in.resource \in MfaResources /\ ~ret.in.user.mfaEnabled
    => ret.out.allowed = FALSE /\ MentionsMFA(ret.out.reason)

\* C3 as amended: for a resource in {security, users, ai_actions} and a
\* principal with mfaEnabled = FALSE, of any role, authorize returns
\* allowed = FALSE; the reason mentions multi-factor authentication when the
\* principal is active and the incident was written.
C3_MfaDenied ==
  AuthorizeReturned /\ ret.in.resource \in MfaResources /\ ~ret.in.user.mfaEnabled
    => /\ ret.out.allowed = FALSE
       /\ ret.in.user.isActive /\ ret.in.dbOk => MentionsMFA(ret.out.reason)

C3_Witness ==
  /\ AuthorizeReturned
  /\ ret.in.resource = "ai_actions"
  /\ ret.in.user.role = EXECUTIVE
  /\ ~ret.in.user.mfaEnabled
  /\ ret.in.user.isActive
  /\ ret.in.dbOk
  /\ ret.out.allowed = FALSE
  /\ MentionsMFA(ret.out.reason)

\* the step is a call of handler op that returned
Returned(op) == ret'.op = op /\ calls' = calls + 1 /\ ~ret'.threw

\* the last row of ai_actions is the pending action of the last call
QueuedForCall ==
  /\ ai_actions # <<>>
  /\ LET row == ai_actions[Len(ai_actions)] IN
       /\ ret.inner.returned
       /\ row.id = ret.inner.val
       /\ row.userId = ret.in.user.id
       /\ row.action = ret.in.action
       /\ row.approved_by = NULL
       /\ row.executed = FALSE

\* C4 as stated: whoever submits it, after authorizeAIAction returns a new
\* pending agent action for that action is stored and the result is not
\* allowed = TRUE.
C4_Stated ==
  ret.op = "authorizeAIAction" /\ ~ret.threw
    => ret.out.allowed # TRUE /\ QueuedForCall

\* C4 as amended: when authorizeAIAction returns for a principal whose role is
\* not Executive, exactly one new pending agent action for that principal and
\* action has been stored and the result is allowed = FALSE with the approval
\* flag; for an Executive principal it returns allowed = TRUE and stores
\* nothing.
C4_QueuedUnlessExecutive ==
  [][ Returned("authorizeAIAction") =>
        IF ret'.in.user.role # EXECUTIVE
          THEN /\ ret'.out.allowed = FALSE
               /\ ret'.out.requiredApproval = TRUE
               /\ Len(ai_actions') = Len(ai_actions) + 1
               /\ SubSeq(ai_actions', 1, Len(ai_actions)) = ai_actions
               /\ QueuedForCall'
          ELSE /\ ret'.out.allowed = TRUE
               /\ ai_actions' = ai_actions
    ]_vars

C4_Witness ==
  /\ ret.op = "authorizeAIAction"
  /\ ~ret.threw
  /\ ret.in.user.role = ADMIN
  /\ ~ret.in.user.isActive
  /\ QueuedForCall

\* the ids getPendingAIActions lists
PendingIds == {getPendingAIActions[i].id : i \in DOMAIN getPendingAIActions}

StoredIds == {ai_actions[i].id : i \in DOMAIN ai_actions}

\* the step is an approve command on actionId
ApproveStep(actionId) ==
  /\ ret'.op = "handleApproveCommand"
  /\ calls' = calls + 1
  /\ ret'.in.actionId = actionId

\* approveAIAction returned true to the last approve command
ApproveSucceeded == ret.inner.returned /\ ret.inner.val = TRUE

\* C5 as stated: once an agent action has an approver, no later approve of its
\* id succeeds, and its approver id and decision timestamp stay as they are.
C5_Stated ==
  [][ \A i \in DOMAIN ai_actions :
        ai_actions[i].approved_by # NULL =>
          /\ ai_actions'[i].approved_by = ai_actions[i].approved_by
          /\ ai_actions'[i].approved_at = ai_actions[i].approved_at
          /\ ApproveStep(ai_actions[i].id) => ~ApproveSucceeded'
    ]_vars

\* C6 as stated: an approve of an id that was never recorded does not return
\* true, changes no stored agent action and writes no audit record.
C6_Stated ==
  [][ \A actionId \in {UnknownId} \cup StoredIds :
        ApproveStep(actionId) /\ actionId \notin StoredIds =>
          /\ ~ApproveSucceeded'
          /\ ai_actions' = ai_actions
          /\ audit_events' = audit_events
    ]_vars

\* the ids for which a rejection was recorded
RejectedIds ==
  { audit_events[j].metadata.actionId :
      j \in { k \in DOMAIN audit_events :
                audit_events[k].action = "REJECT_AI_ACTION" } }

\* C7 as stated: an agent action whose rejection was recorded is no longer
\* listed by getPendingAIActions, and no later step marks it approved or
\* executed.
C7_Stated ==
  [][ \A i \in DOMAIN ai_actions :
        LET id == ai_actions[i].id IN
        /\ ( /\ ret'.op = "handleRejectCommand"
             /\ calls' = calls + 1
             /\ ret'.in.actionId = id
             /\ ret'.out = "AI Action Rejected"
             /\ id \in PendingIds ) => id \notin PendingIds'
        /\ ( id \in RejectedIds /\ id \in PendingIds ) =>
             /\ ai_actions'[i].executed = FALSE
             /\ ai_actions'[i].approved_by = NULL
    ]_vars

\* C8 as stated: every stored approver of an agent action is a principal whose
\* role is Executive.
C8_Stated ==
  \A i \in DOMAIN ai_actions :
    ai_actions[i].approved_by # NULL =>
      RoleOf[ai_actions[i].approved_by] = EXECUTIVE

\* C9: when logAIAction has returned an id, a row with that id is stored with
\* no approver and not executed, and getPendingAIActions lists it; a listed
\* action leaves the list only in a step that approves its id.
C9_PendingUntilApproved ==
  [][ /\ ( Returned("authorizeAIAction") /\ ret'.inner.returned ) =>
           /\ ret'.inner.val \notin StoredIds
           /\ ret'.inner.val \in PendingIds'
           /\ \E i \in DOMAIN ai_actions' :
                /\ ai_actions'[i].id = ret'.inner.val
                /\ ai_actions'[i].approved_by = NULL
                /\ ai_actions'[i].approved_at = NULL
                /\ ai_actions'[i].executed = FALSE
                /\ ai_actions'[i].executed_at = NULL
      /\ \A id \in PendingIds :
           id \notin PendingIds' =>
             ApproveStep(id) /\ ret'.out = "AI Action Approved"
    ]_vars

C9_Witness ==
  /\ ret.op = "handleRejectCommand"
  /\ ret.out = "AI Action Rejected"
  /\ ret.in.actionId \in PendingIds
  /\ clock = MaxClock

\* C10: authorize returns allowed = TRUE only in a call whose SUCCESS audit
\* row has been inserted, and a call whose write fails returns allowed = FALSE
\* without throwing and without a row.
C10_AuditedBeforeAllowed ==
  [][ ( ret'.op = "authorize" /\ calls' = calls + 1 ) =>
        /\ ret'.out.allowed = TRUE =>
             /\ ret'.in.dbOk
             /\ Len(audit_events') = Len(audit_events) + 1
             /\ LET row == audit_events'[Len(audit_events')] IN
                  /\ row.userId = ret'.in.user.id
                  /\ row.resource = ret'.in.resource
                  /\ row.action = <<"AUTHORIZE_", toUpperCase(ret'.in.action)>>
                  /\ row.result = "SUCCESS"
        /\ ~ret'.in.dbOk =>
             /\ ret'.out.allowed = FALSE
             /\ ~ret'.threw
             /\ audit_events' = audit_events
             /\ security_events' = security_events
    ]_vars

C10_Witness ==
  /\ AuthorizeReturned
  /\ ~ret.in.dbOk
  /\ ret.in.user.role = EXECUTIVE
  /\ ret.in.user.isActive
  /\ ret.in.user.mfaEnabled
  /\ ret.out.allowed = FALSE
  /\ ret.out.reason = "Authorization system error"

\* an optional boolean field of a result is present and true
IsSet(field) == ToString(field) = "TRUE"

\* the reason and the approval-required flag of the first gate, in the order
\* inactive, MFA, permission, approval, that fails for the call; NULL if none
FirstFailingGate(user, resource, action) ==
  IF ~user.isActive
    THEN [reason |-> "User account is inactive", approval |-> FALSE]
  ELSE IF /\ \/ resource \in {"security", "users", "ai_actions"}
             \/ action \in {"delete", "execute", "approve", "configure"}
          /\ ~user.mfaEnabled
    THEN [reason |-> "Multi-factor authentication required", approval |-> FALSE]
  ELSE IF ~TableGrants(user.role, resource, action)
    THEN [reason |-> "Insufficient permissions", approval |-> FALSE]
  ELSE IF /\ \/ resource \in {"ai_actions", "security", "users"}
             \/ action \in {"execute", "approve", "delete", "configure"}
          /\ user.role # EXECUTIVE
    THEN [reason |-> "Executive approval required", approval |-> TRUE]
  ELSE [reason |-> NULL, approval |-> FALSE]

\* the denial carries the reason and the flag of the first failing gate
DenialOfFirstFailingGate ==
  LET gate == FirstFailingGate(ret.in.user, ret.in.resource, ret.in.action) IN
  /\ ret.out.reason = gate.reason
  /\ IsSet(ret.out.requiredApproval) = gate.approval

\* C11 as stated: every denial returned by authorize carries a non-empty
\* reason, and the reason and the approval-required flag are those of the
\* first failing gate in the order inactive, MFA, permission, approval.
C11_Stated ==
  AuthorizeReturned /\ ret.out.allowed = FALSE =>
    /\ ret.out.reason \notin {NULL, ""}
    /\ DenialOfFirstFailingGate

\* C11 as amended: every denial returned by authorize carries a non-empty
\* reason; when the write of the branch succeeded, the reason and the
\* approval-required flag are those of the first failing gate in the order
\* inactive, MFA, permission, approval.
C11_DenialReason ==
  AuthorizeReturned /\ ret.out.allowed = FALSE =>
    /\ ret.out.reason \notin {NULL, ""}
    /\ ret.in.dbOk => DenialOfFirstFailingGate

C11_Witness ==
  /\ AuthorizeReturned
  /\ ret.in.dbOk
  /\ ret.in.user.isActive
  /\ ~ret.in.user.mfaEnabled
  /\ ret.in.action = "approve"
  /\ ~TableGrants(ret.in.user.role, ret.in.resource, ret.in.action)
  /\ ret.out.allowed = FALSE
  /\ MentionsMFA(ret.out.reason)

\* the reason of authorize that states insufficient permissions
InsufficientPermissions(reason) == reason = "Insufficient permissions"

MemberApprovesAIAction ==
  /\ AuthorizeReturned
  /\ ret.in.user.role = USER
  /\ ret.in.resource = "ai_actions"
  /\ ret.in.action = "approve"

\* C12 as stated: authorize for a principal with role Member on resource
\* ai_actions with action approve is denied with the reason that states
\* insufficient permissions.
C12_Stated ==
  MemberApprovesAIAction =>
    ret.out.allowed = FALSE /\ InsufficientPermissions(ret.out.reason)

\* C12 as amended: authorize for a principal with role Member on resource
\* ai_actions with action approve is denied; the reason states insufficient
\* permissions when the principal is active and MFA-enabled and the incident
\* was written.
C12_MemberDenied ==
  MemberApprovesAIAction =>
    /\ ret.out.allowed = FALSE
    /\ ret.in.user.isActive /\ ret.in.user.mfaEnabled /\ ret.in.dbOk
         => InsufficientPermissions(ret.out.reason)

C12_Witness ==
  /\ MemberApprovesAIAction
  /\ ret.in.user.isActive
  /\ ret.in.user.mfaEnabled
  /\ ret.in.dbOk
  /\ ret.out.allowed = FALSE
  /\ InsufficientPermissions(ret.out.reason)
  /\ ~TableGrants(USER, "ai_actions", "approve")

ActiveMfaExecutive ==
  /\ AuthorizeReturned
  /\ ret.in.user.role = EXECUTIVE
  /\ ret.in.user.isActive
  /\ ret.in.user.mfaEnabled

\* C13 as stated: for an active, MFA-enabled principal with role Executive,
\* authorize returns allowed = TRUE for every (resource, action); for
\* resource ai_actions and action approve the result has auditRequired = TRUE.
C13_Stated ==
  ActiveMfaExecutive =>
    /\ ret.out.allowed = TRUE
    /\ ret.in.resource = "ai_actions" /\ ret.in.action = "approve"
         => IsSet(ret.out.auditRequired)

\* C13 as amended: for an active, MFA-enabled principal with role Executive,
\* authorize returns allowed = TRUE for every (resource, action) provided the
\* audit record of the decision was written; for resource ai_actions and
\* action approve the result then has auditRequired = TRUE.
C13_ExecutiveAllowed ==
  ActiveMfaExecutive /\ ret.in.dbOk =>
    /\ ret.out.allowed = TRUE
    /\ ret.in.resource = "ai_actions" /\ ret.in.action = "approve"
         => IsSet(ret.out.auditRequired)

C13_Witness ==
  /\ ActiveMfaExecutive
  /\ ret.in.dbOk
  /\ ret.in.resource = "ai_actions"
  /\ ret.in.action = "approve"
  /\ ret.out.allowed = TRUE
  /\ IsSet(ret.out.auditRequired)

\* the step is a call of assessCompliance
AssessStep == calls' = calls + 1 /\ ret'.op = "assessCompliance"

\* NonCompliant if any requirement is, else Partial if any is, else Compliant
OverallRule(requirements) ==
  IF \E i \in DOMAIN requirements : requirements[i].status = "NON_COMPLIANT"
    THEN "NON_COMPLIANT"
  ELSE IF \E i \in DOMAIN requirements : requirements[i].status = "PARTIAL"
    THEN "PARTIAL"
  ELSE "COMPLIANT"

\* C18: assessCompliance on a known framework leaves its overall status
\* NON_COMPLIANT if any of its requirements is NON_COMPLIANT, else PARTIAL if
\* any is PARTIAL, else COMPLIANT, and returns that framework when the audit
\* record was written; on an unknown name it throws, changes no framework and
\* writes no audit record.
C18_AssessStatus ==
  [][ AssessStep =>
        LET frameworkName == ret'.in.frameworkName IN
        IF frameworkName \in DOMAIN frameworks
          THEN /\ frameworks'[frameworkName].status =
                    OverallRule(frameworks'[frameworkName].requirements)
               /\ ~ret'.threw => ret'.out = frameworks'[frameworkName]
          ELSE /\ ret'.threw
               /\ frameworks' = frameworks
               /\ audit_events' = audit_events ]_vars

C18_Witness ==
  /\ ret.op = "assessCompliance"
  /\ ~ret.threw
  /\ ret.out.status = "PARTIAL"
  /\ \E i \in DOMAIN ret.out.requirements :
       ret.out.requirements[i].status = "COMPLIANT"
  /\ audit_events # <<>>

\* all tags of the category: Compliant; some but not all: Partial; none:
\* NonCompliant
ThreeTier(requirement) ==
  LET tags == EvidenceTags(requirement.category) IN
  IF tags \subseteq requirement.evidence THEN "COMPLIANT"
  ELSE IF tags \cap requirement.evidence # {} THEN "PARTIAL"
  ELSE "NON_COMPLIANT"

Statuses(framework) ==
  [ status |-> framework.status,
    requirements |->
      [i \in DOMAIN framework.requirements |-> framework.requirements[i].status] ]

\* C20: an assessCompliance call that directly follows an assessCompliance
\* call of the same framework leaves the overall status and the status of
\* every requirement as the first call left them.
C20_AssessIdempotent ==
  [][ /\ AssessStep
      /\ ret.op = "assessCompliance"
      /\ ret'.in.frameworkName = ret.in.frameworkName
      /\ ret.in.frameworkName \in DOMAIN frameworks
      => Statuses(frameworks'[ret.in.frameworkName]) =
           Statuses(frameworks[ret.in.frameworkName]) ]_vars

C20_Witness ==
  /\ ret.op = "assessCompliance"
  /\ ret.in.frameworkName = "SOC2"
  /\ Len(audit_events) = 2
  /\ \A i \in DOMAIN audit_events :
       /\ audit_events[i].action = "COMPLIANCE_ASSESSMENT"
       /\ audit_events[i].resource = "SOC2"
       /\ audit_events[i].metadata.status = "PARTIAL"
  /\ frameworks["SOC2"].status = "PARTIAL"

\* every row of table before is still in table after, at its place, unchanged
Kept(before, after) ==
  /\ Len(before) <= Len(after)
  /\ \A i \in DOMAIN before : after[i] = before[i]

\* C14: no operation deletes or modifies a stored audit record or security
\* incident: over every step, each row of audit_events and of security_events
\* is still present with all its fields unchanged.
C14_AppendOnly ==
  [][Kept(audit_events, audit_events') /\ Kept(security_events, security_events')]_vars

C14_Witness ==
  /\ Len(audit_events) = 2
  /\ audit_events[1].action = "CREATE_USER"
  /\ audit_events[2].action = "COMPLIANCE_ASSESSMENT"
  /\ ret.op = "assessCompliance"

\* the id is that of a principal whose role is Executive
HoldsExecutive(id) == id \in DOMAIN RoleOf /\ RoleOf[id] = EXECUTIVE

\* C15 as stated: updateUserRole returns true only when the caller is a
\* principal holding the Executive role, and a call that returns has written
\* its record: an audit record on success, a security incident on rejection.
C15_Stated ==
  ret.op = "updateUserRole" =>
    /\ IsSet(ret.out) => HoldsExecutive(ret.in.updatedBy)
    /\ ~ret.threw => ret.inner.returned

\* the id is that of a principal whose role has no permission on users
Unprivileged(id) ==
  /\ id \in DOMAIN RoleOf
  /\ \A action \in Actions \cup {"create", "deactivate"} :
       ~TableGrants(RoleOf[id], "users", action)

\* C16 as stated: a createUser or deactivateUser call made by a caller whose
\* role has no permission on users is rejected and writes no audit record
\* with result SUCCESS.
C16_Stated ==
  /\ ret.op = "createUser" /\ Unprivileged(ret.in.createdBy)
       => ret.threw /\ ~ret.inner.returned
  /\ ret.op = "deactivateUser" /\ Unprivileged(ret.in.deactivatedBy)
       => ret.threw /\ ~ret.inner.returned

\* max(0, 100 - 20 C - 10 H - 5 M) over all incidents recorded so far
ScoreOfAllIncidents ==
  LET n(severity) ==
        Cardinality({i \in DOMAIN security_events :
                       security_events[i].severity = severity})
      score == 100 - 20 * n("CRITICAL") - 10 * n("HIGH") - 5 * n("MEDIUM")
  IN IF score < 0 THEN 0 ELSE score

\* C17 as stated: the securityScore of a report lies in 0..100 and equals
\* max(0, 100 - 20 C - 10 H - 5 M), where C, H and M count the critical, high
\* and medium incidents recorded so far.
C17_Stated ==
  ret.op = "getSecurityReport" /\ ~ret.threw =>
    /\ ret.out.securityScore \in 0..100
    /\ ret.out.securityScore = ScoreOfAllIncidents

\* the step is a call of scheduleDataDeletion
ScheduleStep == calls' = calls + 1 /\ ret'.op = "scheduleDataDeletion"

\* the retention period and deletion method registered for each data type
RetentionOf ==
  [ audit_logs |-> [days |-> 2555, method |-> "SECURE_DELETE"],
    user_data |-> [days |-> 365, method |-> "CRYPTOGRAPHIC_ERASE"],
    ai_actions |-> [days |-> 1095, method |-> "SECURE_DELETE"],
    security_events |-> [days |-> 2555, method |-> "SECURE_DELETE"] ]

\* the step appends one audit record of the scheduled deletion of dataType:
\* deletion date now plus the retention period, and the deletion method
AppendsDeletionRecord(dataType) ==
  /\ Len(audit_events') = Len(audit_events) + 1
  /\ LET row == audit_events'[Len(audit_events')] IN
       /\ row.action = "SCHEDULE_DELETION"
       /\ row.resource = dataType
       /\ row.metadata.deletionDate =
            [from |-> clock, days |-> RetentionOf[dataType].days]
       /\ row.metadata.deletionMethod = RetentionOf[dataType].method

\* no table loses or changes a row over the step
NothingDeleted ==
  /\ Kept(audit_events, audit_events')
  /\ Kept(security_events, security_events')
  /\ ai_actions' = ai_actions

\* C21 as stated: scheduleDataDeletion returns true and appends exactly one
\* audit record with the deletion date and method when a policy exists for
\* dataType, returns false and appends nothing when none exists, and never
\* deletes or changes a stored record.
C21_Stated ==
  [][ ScheduleStep =>
        /\ NothingDeleted
        /\ IF ret'.in.dataType \in DOMAIN RetentionOf
             THEN IsSet(ret'.out) /\ AppendsDeletionRecord(ret'.in.dataType)
             ELSE ~ret'.threw /\ ~IsSet(ret'.out)
                  /\ audit_events' = audit_events ]_vars

\* C21 as amended: as stated when the write of the audit record succeeds;
\* when it fails, the call throws and appends nothing.
C21_OnlySchedules ==
  [][ ScheduleStep =>
        /\ NothingDeleted
        /\ IF ret'.in.dataType \in DOMAIN RetentionOf
             THEN IF ret'.in.dbOk
                    THEN IsSet(ret'.out)
                         /\ AppendsDeletionRecord(ret'.in.dataType)
                    ELSE ret'.threw /\ audit_events' = audit_events
             ELSE ~ret'.threw /\ ~IsSet(ret'.out)
                  /\ audit_events' = audit_events ]_vars

C21_Witness ==
  /\ ret.op = "scheduleDataDeletion"
  /\ ret.in.dataType = "audit_logs"
  /\ IsSet(ret.out)
  /\ audit_events # <<>>
  /\ audit_events[Len(audit_events)].action = "SCHEDULE_DELETION"
  /\ audit_events[Len(audit_events)].metadata.retentionPeriod = 2555

\* the content fields of a stored audit record
AuditContent(row) ==
  [ timestamp |-> row.timestamp, userId |-> row.userId, action |-> row.action,
    resource |-> row.resource, result |-> row.result, metadata |-> row.metadata ]

\* the tag of the audit record is the one recomputed under the current key
VerifiesAudit(row) == row.hash = generateHash(AuditContent(row))

\* C22 as stated: when no key is configured, the key in use is the same
\* across restarts, so every integrity tag written so far verifies under the
\* key of the running process.
C22_Stated ==
  ENCRYPTION_KEY = NULL =>
    \A i \in DOMAIN audit_events : VerifiesAudit(audit_events[i])

\* the tag of the record covers the stored value of the content field
Covers(row, field) ==
  /\ field \in DOMAIN row.hash.data
  /\ row.hash.data[field] = row[field]

\* C25 as stated: the tag of every stored audit record and of every stored
\* agent action is the MAC, under the master key, of the record's own stored
\* content fields, timestamp and metadata included.
C25_Stated ==
  /\ \A i \in DOMAIN audit_events :
       /\ audit_events[i].hash.key = encryptionKey
       /\ \A field \in {"timestamp", "userId", "action", "resource", "result",
                         "metadata"} : Covers(audit_events[i], field)
  /\ \A i \in DOMAIN ai_actions :
       /\ ai_actions[i].hash.key = encryptionKey
       /\ \A field \in {"timestamp", "userId", "action", "metadata"} :
            Covers(ai_actions[i], field)

\* the step is a call of authorize
AuthorizeStep == calls' = calls + 1 /\ ret'.op = "authorize"

\* the step appends one audit record with result SUCCESS and no incident
AppendsSuccessRecord ==
  /\ Len(audit_events') = Len(audit_events) + 1
  /\ audit_events'[Len(audit_events')].result = "SUCCESS"
  /\ Kept(audit_events, audit_events')
  /\ security_events' = security_events

\* the step appends one incident of severity MEDIUM or HIGH and no audit record
AppendsIncident ==
  /\ Len(security_events') = Len(security_events) + 1
  /\ security_events'[Len(security_events')].severity \in {"MEDIUM", "HIGH"}
  /\ Kept(security_events, security_events')
  /\ audit_events' = audit_events

C24_Stated ==
  AuthorizeReturned /\ ~ret.in.dbOk =>
    /\ ~ret.out.allowed
    /\ \E i \in 2..Len(ret.attempts) :
         /\ ret.attempts[i].table = "security_events"
         /\ ret.attempts[i].event.severity \in {"MEDIUM", "HIGH", "CRITICAL"}

\* rows is the newest-first list, cut after the limit, of the stored audit
\* records named by matching
NewestOf(rows, matching) ==
  LET wanted == {audit_events[i] : i \in matching}
      returned == {rows[k] : k \in DOMAIN rows}
  IN
  /\ returned \subseteq wanted
  /\ Cardinality(returned) = Len(rows)
  /\ Len(rows) = IF Cardinality(matching) < AuditTrailLimit
                   THEN Cardinality(matching) ELSE AuditTrailLimit
  /\ \A k \in 1..(Len(rows) - 1) : rows[k].timestamp >= rows[k + 1].timestamp
  /\ \A row \in wanted \ returned :
       row.timestamp <= rows[Len(rows)].timestamp

\* C26 as stated: getAuditTrail returns the stored audit records that satisfy
\* all given filters (user id equal, timestamp >= startDate, timestamp <=
\* endDate), newest first, cut to the 1000 newest; all records when no filter
\* is given.
C26_Stated ==
  ret.op = "getAuditTrail" =>
    NewestOf(ret.out,
      {i \in DOMAIN audit_events :
         /\ ret.in.userId # NULL => audit_events[i].userId = ret.in.userId
         /\ ret.in.startDate # NoDate =>
              audit_events[i].timestamp >= ret.in.startDate
         /\ ret.in.endDate # NoDate =>
              audit_events[i].timestamp <= ret.in.endDate})

\* C26 as amended: as stated, a user id given as the empty string counting
\* as not given.
C26_QueryAudit ==
  ret.op = "getAuditTrail" =>
    NewestOf(ret.out,
      {i \in DOMAIN audit_events :
         /\ ret.in.userId \notin {NULL, ""} =>
              audit_events[i].userId = ret.in.userId
         /\ ret.in.startDate # NoDate =>
              audit_events[i].timestamp >= ret.in.startDate
         /\ ret.in.endDate # NoDate =>
              audit_events[i].timestamp <= ret.in.endDate})

C26_Witness ==
  /\ ret.op = "getAuditTrail"
  /\ ret.in.userId = NULL
  /\ ret.in.startDate = NoDate
  /\ ret.in.endDate = NoDate
  /\ Len(audit_events) > AuditTrailLimit
  /\ Len(ret.out) = AuditTrailLimit
  /\ ret.out[1] = audit_events[Len(audit_events)]

\* C27: authorizeAIAction answers allowed = TRUE exactly for a caller whose
\* role is Executive, whatever the caller's isActive and mfaEnabled: every
\* other call answers the denial that requires approval, or throws.
C27_ExecutiveOnly ==
  ret.op = "authorizeAIAction" =>
    /\ (~ret.threw /\ ret.out.allowed) <=> ret.in.user.role = EXECUTIVE
    /\ ret.in.user.role = EXECUTIVE => ~ret.threw
    /\ (~ret.threw /\ ~ret.out.allowed) => ret.out.requiredApproval = TRUE

C27_Witness ==
  /\ ret.op = "authorizeAIAction"
  /\ ret.in.user.role = EXECUTIVE
  /\ ~ret.in.user.isActive
  /\ ~ret.in.user.mfaEnabled
  /\ ~ret.threw
  /\ ret.out.allowed

\* a column that still holds the table's default, NULL
Absent(column) == ToString(column) = ToString(NULL)

\* C28: in every reachable state of ai_actions a row is marked executed
\* exactly when it carries an approver id and an approval timestamp, and
\* getPendingAIActions returns exactly the rows that were never approved.
C28_ExecutedIffApproved ==
  /\ \A i \in DOMAIN ai_actions :
       /\ ai_actions[i].executed = TRUE <=>
            (~Absent(ai_actions[i].approved_by) /\ ~Absent(ai_actions[i].approved_at))
       /\ Absent(ai_actions[i].approved_by) <=> Absent(ai_actions[i].approved_at)
  /\ PendingIds =
       {ai_actions[i].id : i \in {j \in DOMAIN ai_actions :
                                    Absent(ai_actions[j].approved_by)}}

C28_Witness ==
  \E i, j \in DOMAIN ai_actions :
    /\ ai_actions[i].executed = TRUE
    /\ ai_actions[i].approved_by = "execAlice"
    /\ ai_actions[j].executed = FALSE
    /\ PendingIds = {ai_actions[j].id}

\* the securityScore values a getSecurityReport over the incidents of table
\* can return
ScoresRead(table) ==
  {calculateSecurityScore(securityEvents) :
     securityEvents \in newestFirst(table, SecurityEventsLimit)}

\* the last call was an authorize that stored the incident of its denial
AuthorizeStoredIncident ==
  /\ ret.op = "authorize"
  /\ ~ret.out.allowed
  /\ ret.in.dbOk
  /\ security_events # <<>>

\* C29 as stated: a denied authorize call appends an incident of severity
\* Medium or High, and the securityScore read after the call is at most the
\* one read before it, the limit of the incident query included.
C29_Stated ==
  AuthorizeStoredIncident =>
    LET before == SubSeq(security_events, 1, Len(security_events) - 1)
        incident == security_events[Len(security_events)]
    IN
    /\ incident.severity \in {"MEDIUM", "HIGH"}
    /\ \A scoreBefore \in ScoresRead(before) :
         \A scoreAfter \in ScoresRead(security_events) :
           scoreAfter <= scoreBefore

\* C30 as stated: in every report, taken in any state, an assessCompliance of
\* the same framework suspended at one of its awaits included, the overall
\* status of each framework is the one derived from the requirement statuses
\* of that state: NON_COMPLIANT if any is, else PARTIAL if any is, else
\* COMPLIANT.
C30_Stated ==
  ret.op = "generateComplianceReport" =>
    \A n \in DOMAIN ret.out.frameworks :
      LET f == ret.out.frameworks[n] IN
      f.status = IF f.nonCompliantRequirements > 0 THEN "NON_COMPLIANT"
                 ELSE IF f.partialRequirements > 0 THEN "PARTIAL"
                 ELSE "COMPLIANT"

=============================================================================
